---------------------------- MODULE Spec2Model ----------------------------
(***************************************************************************)
(* Model of github.com/gbabineau/birdsync:                                 *)
(*   package ebird: Records (CSV ingestion), DownloadMLAsset               *)
(*   package inat : Client.DownloadObservations (paginated retrieval)      *)
(*                                                                         *)
(* Four specifications over one set of variables: SpecRecords, SpecObs,    *)
(* SpecAsset, and SpecMethods for the methods of Record and ObservationID. *)
(***************************************************************************)
EXTENDS Integers, Naturals, Sequences, FiniteSets, TLC

VARIABLES
    \* ---- ebird.Records ----
    file,       \* result of csv ReadAll: sequence of rows, row 1 is the header
    field,      \* map[string]int built from the header (column name -> 0-based index)
    recs,       \* recs[1:], the data rows
    ri,         \* loop index i of "for i, rec := range recs" (0-based)
    yielded,    \* Records handed to yield so far, in order
    yieldOK,    \* what the last call of yield returned (TRUE before any call)
    rpc,        \* position in Records: "idle", "call", "iter", "done", "fatal"
    \* ---- inat.Client.DownloadObservations ----
    page,           \* loop variable page
    results,        \* accumulated []Result (items are numbered)
    totalResults,   \* captured total
    requests,       \* page numbers requested so far, in order
    responses,      \* decoded responses so far: [TotalResults, Count]
    opc,            \* "idle", "loop", "done" (returned), "fatal_..." (log.Fatal)
    \* ---- ebird.DownloadMLAsset ----
    mlAssetID,      \* argument
    mimeTable,      \* the host's MIME type -> extensions table
    probes,         \* http.Get calls so far: [endpoint, id, status]
    body,           \* bytes of resp.Body of the current resp
    isPhoto,        \* local isPhoto
    tmpCreated,     \* os.CreateTemp succeeded
    tmpOpen,        \* the handle tmpFile is open
    tmpData,        \* bytes written to the temporary file
    buf,            \* bytes read back for content type detection
    ext,            \* local ext
    disk,           \* names of the files this call left on disk
    ret,            \* returned (path, isPhoto, err), err = "nil" on success
    apc,            \* position in DownloadMLAsset
    \* ---- methods of ebird.Record and ebird.ObservationID ----
    rcv,            \* the receiver Record (the fields the methods read)
    given,          \* how the receiver's Date and Time were written
    observedRet,    \* what r.Observed() returned
    oidRet,         \* what r.ObservationID() returned
    validRet        \* what ObservationID.Valid() returned on oidRet

rvars == <<file, field, recs, ri, yielded, yieldOK, rpc>>
ovars == <<page, results, totalResults, requests, responses, opc>>
avars == <<mlAssetID, mimeTable, probes, body, isPhoto, tmpCreated, tmpOpen,
           tmpData, buf, ext, disk, ret, apc>>

mvars == <<rcv, given, observedRet, oidRet, validRet>>

vars == <<rvars, ovars, avars, mvars>>

-----------------------------------------------------------------------------
(* Bounds of the model *)

MaxCols == 2        \* longest header / data row enumerated
MaxRows == 2        \* most data rows in a file
MaxPage == 3        \* pages requested before the model stops following the loop

-----------------------------------------------------------------------------
(* ebird.Records                                                           *)

\* Column names that may occur in an enumerated header.
HeaderNames == {"Submission ID", "Date", "Time"}

\* Cell contents enumerated for data rows.
Cells == {"", "x"}

SeqsUpTo(S, lo, hi) == UNION {[1..n -> S] : n \in lo..hi}

\* encoding/csv never returns a record with zero fields, so every row,
\* the header included, has at least one cell.
Headers == SeqsUpTo(HeaderNames, 1, MaxCols)
Rows == SeqsUpTo(Cells, 1, MaxCols)
Files == {<<>>} \cup
         {<<h>> \o d : h \in Headers, d \in SeqsUpTo(Rows, 0, MaxRows)}

\* for i, f := range recs[0] { field[f] = i }   -- later writes overwrite
RECURSIVE BuildField(_, _)
BuildField(header, n) ==
    IF n = 0 THEN << >>
    ELSE LET m == BuildField(header, n - 1)
             f == header[n]
         IN [k \in (DOMAIN m) \cup {f} |-> IF k = f THEN n - 1 ELSE m[k]]

\* Go map read: a missing key yields the zero value of int.
MapGet(m, key) == IF key \in DOMAIN m THEN m[key] ELSE 0

\* stringField closure: bounds check against the row, 0-based index f.
stringFieldOffByOne(fld, rec, key) ==
    LET f == MapGet(fld, key)
    IN IF f + 1 < Len(rec) THEN rec[f + 1] ELSE ""
stringField(fld, rec, key) ==
    LET f == MapGet(fld, key)
    IN IF f < Len(rec) THEN rec[f + 1] ELSE ""

\* Line: i + 2, // header was line 1
LineOfNoHeader(i) == i + 1
LineOf(i) == i + 2

\* if !yield(Record{...}) { return }
LoopGoesOnAlways(more) == TRUE
LoopGoesOn(more) == more

\* The Record literal passed to yield.
Record(fld, rec, i) ==
    [ Line               |-> LineOf(i),
      SubmissionID       |-> stringField(fld, rec, "Submission ID"),
      CommonName         |-> stringField(fld, rec, "Common Name"),
      ScientificName     |-> stringField(fld, rec, "Scientific Name"),
      TaxonomicOrder     |-> stringField(fld, rec, "Taxonomic Order"),
      Count              |-> stringField(fld, rec, "Count"),
      StateProvince      |-> stringField(fld, rec, "State/Province"),
      County             |-> stringField(fld, rec, "County"),
      LocationID         |-> stringField(fld, rec, "Location ID"),
      Location           |-> stringField(fld, rec, "Location"),
      Latitude           |-> stringField(fld, rec, "Latitude"),
      Longitude          |-> stringField(fld, rec, "Longitude"),
      Date               |-> stringField(fld, rec, "Date"),
      Time               |-> stringField(fld, rec, "Time"),
      Protocol           |-> stringField(fld, rec, "Protocol"),
      DurationMin        |-> stringField(fld, rec, "Duration (Min)"),
      AllObsReported     |-> stringField(fld, rec, "All Obs Reported"),
      DistanceTraveledKm |-> stringField(fld, rec, "Distance Traveled (km)"),
      AreaCoveredHa      |-> stringField(fld, rec, "Area Covered (ha)"),
      NumberOfObservers  |-> stringField(fld, rec, "Number of Observers"),
      BreedingCode       |-> stringField(fld, rec, "Breeding Code"),
      ObservationDetails |-> stringField(fld, rec, "Observation Details"),
      ChecklistComments  |-> stringField(fld, rec, "Checklist Comments"),
      MLCatalogNumbers   |-> stringField(fld, rec, "ML Catalog Numbers") ]

\* Records(filename) up to the return of the iterator: an empty file is fatal,
\* otherwise the header becomes the field map and is dropped from recs.
RecordsCall ==
    /\ rpc = "call"
    /\ IF Len(file) < 1
       THEN /\ rpc' = "fatal"
            /\ UNCHANGED <<field, recs>>
       ELSE /\ field' = BuildField(file[1], Len(file[1]))
            /\ recs' = Tail(file)
            /\ rpc' = "iter"
    /\ UNCHANGED <<file, ri, yielded, yieldOK, ovars, avars, mvars>>

\* One pass of the loop body: build the Record of row ri and yield it; the
\* consumer's answer decides whether the loop goes on.
RecordsYield ==
    /\ rpc = "iter"
    /\ ri < Len(recs)
    /\ yielded' = Append(yielded, Record(field, recs[ri + 1], ri))
    /\ \E more \in BOOLEAN :
         /\ yieldOK' = more
         /\ IF LoopGoesOn(more)
            THEN /\ ri' = ri + 1
                 /\ rpc' = "iter"
            ELSE /\ ri' = ri
                 /\ rpc' = "done"
    /\ UNCHANGED <<file, field, recs, ovars, avars, mvars>>

\* range exhausted
RecordsEnd ==
    /\ rpc = "iter"
    /\ ri >= Len(recs)
    /\ rpc' = "done"
    /\ UNCHANGED <<file, field, recs, ri, yielded, yieldOK, ovars, avars, mvars>>

-----------------------------------------------------------------------------
(* inat.Client.DownloadObservations                                        *)

perPage == 200

\* What the remote source may answer: a reported total and a number of items
\* on the page (never more than per_page).
Totals == {0, 50, 250, 401}
Counts == {0, 1, 50, perPage}

\* The items of page p when it carries n of them: numbered by their position
\* in the source's listing.
PageItems(p, n) == [k \in 1..n |-> (p - 1) * perPage + k]

\* The body of the loop after a page is decoded: the new results and captured
\* total, and whether the loop breaks.
AfterPageAppendFirst(res, tot, obs) ==
    LET res2 == res \o obs.Results
    IN IF obs.TotalResults = 0
       THEN [results |-> res2, totalResults |-> tot, stop |-> TRUE]
       ELSE LET tot2 == IF tot = 0 THEN obs.TotalResults ELSE tot
            IN [results |-> res2, totalResults |-> tot2,
                stop |-> Len(res2) >= tot2]
AfterPageStrict(res, tot, obs) ==
    IF obs.TotalResults = 0
    THEN [results |-> res, totalResults |-> tot, stop |-> TRUE]
    ELSE LET tot2 == IF tot = 0 THEN obs.TotalResults ELSE tot
             res2 == res \o obs.Results
         IN [results |-> res2, totalResults |-> tot2,
             stop |-> Len(res2) > tot2]
AfterPageLatestTotal(res, tot, obs) ==
    IF obs.TotalResults = 0
    THEN [results |-> res, totalResults |-> tot, stop |-> TRUE]
    ELSE LET tot2 == obs.TotalResults
             res2 == res \o obs.Results
         IN [results |-> res2, totalResults |-> tot2,
             stop |-> Len(res2) >= tot2]
AfterPage(res, tot, obs) ==
    IF obs.TotalResults = 0
    THEN [results |-> res, totalResults |-> tot, stop |-> TRUE]
    ELSE LET tot2 == IF tot = 0 THEN obs.TotalResults ELSE tot
             res2 == res \o obs.Results
         IN [results |-> res2, totalResults |-> tot2,
             stop |-> Len(res2) >= tot2]

\* if err != nil { log.Fatal(err) }: the process ends inside the call, which
\* never returns.
FatalReturnsPartial(why) == "done"
Fatal(why) == "fatal_" \o why

\* One pass of the loop whose request is answered and decoded.
ObsFetch ==
    /\ opc = "loop"
    /\ page <= MaxPage
    /\ \E t \in Totals, n \in Counts :
         LET obs == [TotalResults |-> t, Results |-> PageItems(page, n)]
             nxt == AfterPage(results, totalResults, obs)
         IN /\ requests' = Append(requests, page)
            /\ responses' = Append(responses, [TotalResults |-> t, Count |-> n])
            /\ results' = nxt.results
            /\ totalResults' = nxt.totalResults
            /\ IF nxt.stop
               THEN /\ opc' = "done"
                    /\ page' = page
               ELSE /\ opc' = "loop"
                    /\ page' = page + 1
    /\ UNCHANGED <<rvars, avars, mvars>>

\* One pass of the loop whose roundTrip fails: log.Fatal.
ObsTransportFail ==
    /\ opc = "loop"
    /\ page <= MaxPage
    /\ requests' = Append(requests, page)
    /\ opc' = Fatal("roundTrip")
    /\ UNCHANGED <<page, results, totalResults, responses, rvars, avars, mvars>>

\* One pass of the loop whose body does not decode: log.Fatal.
ObsDecodeFail ==
    /\ opc = "loop"
    /\ page <= MaxPage
    /\ requests' = Append(requests, page)
    /\ opc' = Fatal("Unmarshal")
    /\ UNCHANGED <<page, results, totalResults, responses, rvars, avars, mvars>>

-----------------------------------------------------------------------------
(* ebird.DownloadMLAsset                                                   *)

StatusOK == 200
StatusNotFound == 404

MLAssetIDs == {"100", "200"}
Statuses == {StatusOK, StatusNotFound, 403, 500}

\* Kinds of byte streams a response body may carry, by their leading bytes.
Contents == {"jpeg", "mp3", "unknown", "empty"}

PhotoURL(id) == <<"https://cdn.download.ams.birds.cornell.edu/api/v2/asset/", id, "/2400">>
AudioURL(id) == <<"https://cdn.download.ams.birds.cornell.edu/api/v2/asset/", id, "/mp3">>

\* os.CreateTemp("", "birdsync"): the name of this call's temporary file.
TmpName == "/tmp/birdsync1"

\* http.DetectContentType over the enumerated byte streams; it always returns
\* a valid MIME type.
DetectContentType(b) ==
    CASE b = "jpeg"    -> "image/jpeg"
      [] b = "mp3"     -> "audio/mpeg"
      [] b = "empty"   -> "text/plain; charset=utf-8"
      [] OTHER         -> "application/octet-stream"

\* mime.ParseMediaType: the type without its parameters.
MediaType(m) == IF m = "text/plain; charset=utf-8" THEN "text/plain" ELSE m

MimeTypes == {"image/jpeg", "audio/mpeg", "text/plain", "application/octet-stream"}

\* The table behind mime.ExtensionsByType depends on the host: Go's built-in
\* table alone, or extended by the system's mime.types files. Extensions
\* are returned sorted.
BuiltinTable ==
    [m \in MimeTypes |-> IF m = "image/jpeg" THEN <<".jpeg", ".jpg">> ELSE << >>]
SystemTable ==
    [m \in MimeTypes |->
        CASE m = "image/jpeg" -> <<".jfif", ".jpe", ".jpeg", ".jpg">>
          [] m = "audio/mpeg" -> <<".m2a", ".mp2", ".mp3">>
          [] m = "text/plain" -> <<".asc", ".txt">>
          [] OTHER            -> <<".bin">>]
MimeTables == {BuiltinTable, SystemTable}

ExtensionsByType(table, m) == table[MediaType(m)]

\* if resp.StatusCode == http.StatusNotFound: try the sound
FallsBackAlways(st) == TRUE
FallsBackNotOK(st) == st # StatusOK
FallsBack(st) == st = StatusNotFound

\* if isPhoto: only photos are sniffed
SniffsAlways(photo) == TRUE
Sniffs(photo) == photo

\* if err != nil || len(extensions) == 0 { return error }; ext = extensions[0]
PickExtKeepDefault(extensions, cur) ==
    IF Len(extensions) = 0
    THEN [fail |-> FALSE, ext |-> cur]
    ELSE [fail |-> FALSE, ext |-> extensions[1]]
PickExt(extensions, cur) ==
    IF Len(extensions) = 0
    THEN [fail |-> TRUE, ext |-> cur]
    ELSE [fail |-> FALSE, ext |-> extensions[1]]

\* os.Rename(old, new): the file moves to its new name
RenamedKeepsOld(d, old, new) == d \cup {new}
Renamed(d, old, new) == (d \ {old}) \cup {new}

\* return path, isPhoto, err
ReturnTmpOnError(path, photo, err) ==
    /\ ret' = [path |-> IF err # "nil" /\ tmpCreated THEN TmpName ELSE path,
               isPhoto |-> photo, err |-> err]
    /\ apc' = "done"
Return(path, photo, err) ==
    /\ ret' = [path |-> path, isPhoto |-> photo, err |-> err]
    /\ apc' = "done"

\* if resp.StatusCode != http.StatusOK { return error }, else go on to CreateTemp
CheckStatus(st, photo) ==
    IF st # StatusOK
    THEN Return("", photo, "status")
    ELSE /\ apc' = "createTemp"
         /\ UNCHANGED ret

\* http.Get of the photo URL, isPhoto, and the status tests that follow when
\* the photo is not "not found".
AssetGetPhoto ==
    /\ apc = "photo"
    /\ \/ /\ probes' = Append(probes, [url |-> PhotoURL(mlAssetID), err |-> TRUE, status |-> 0])
          /\ Return("", FALSE, "get")
          /\ UNCHANGED <<body, isPhoto>>
       \/ \E st \in Statuses, b \in Contents :
            /\ probes' = Append(probes, [url |-> PhotoURL(mlAssetID), err |-> FALSE, status |-> st])
            /\ body' = b
            /\ isPhoto' = (st = StatusOK)
            /\ IF FallsBack(st)
               THEN /\ apc' = "audio"
                    /\ UNCHANGED ret
               ELSE CheckStatus(st, st = StatusOK)
    /\ UNCHANGED <<mlAssetID, mimeTable, tmpCreated, tmpOpen, tmpData, buf, ext, disk>>
    /\ UNCHANGED <<rvars, ovars, mvars>>

\* http.Get of the sound URL and the status test that follows.
AssetGetAudio ==
    /\ apc = "audio"
    /\ \/ /\ probes' = Append(probes, [url |-> AudioURL(mlAssetID), err |-> TRUE, status |-> 0])
          /\ Return("", isPhoto, "get")
          /\ UNCHANGED body
       \/ \E st \in Statuses, b \in Contents :
            /\ probes' = Append(probes, [url |-> AudioURL(mlAssetID), err |-> FALSE, status |-> st])
            /\ body' = b
            /\ CheckStatus(st, isPhoto)
    /\ UNCHANGED <<mlAssetID, mimeTable, isPhoto, tmpCreated, tmpOpen, tmpData, buf, ext, disk>>
    /\ UNCHANGED <<rvars, ovars, mvars>>

\* os.CreateTemp
AssetCreateTemp ==
    /\ apc = "createTemp"
    /\ \/ /\ tmpCreated' = TRUE
          /\ tmpOpen' = TRUE
          /\ disk' = disk \cup {TmpName}
          /\ apc' = "copy"
          /\ UNCHANGED ret
       \/ /\ Return("", isPhoto, "CreateTemp")
          /\ UNCHANGED <<tmpCreated, tmpOpen, disk>>
    /\ UNCHANGED <<mlAssetID, mimeTable, probes, body, isPhoto, tmpData, buf, ext>>
    /\ UNCHANGED <<rvars, ovars, mvars>>

\* io.Copy(tmpFile, resp.Body), then ext := ".mp3" and the isPhoto test
AssetCopy ==
    /\ apc = "copy"
    /\ \/ /\ tmpData' = body
          /\ ext' = ".mp3"
          /\ apc' = IF Sniffs(isPhoto) THEN "seek" ELSE "close"
          /\ UNCHANGED ret
       \/ /\ Return("", isPhoto, "copy")
          /\ UNCHANGED <<tmpData, ext>>
    /\ UNCHANGED <<mlAssetID, mimeTable, probes, body, isPhoto, tmpCreated, tmpOpen, buf, disk>>
    /\ UNCHANGED <<rvars, ovars, mvars>>

\* tmpFile.Seek(0, 0)
AssetSeek ==
    /\ apc = "seek"
    /\ \/ /\ apc' = "read"
          /\ UNCHANGED ret
       \/ Return("", isPhoto, "seek")
    /\ UNCHANGED <<mlAssetID, mimeTable, probes, body, isPhoto, tmpCreated, tmpOpen,
                   tmpData, buf, ext, disk>>
    /\ UNCHANGED <<rvars, ovars, mvars>>

\* tmpFile.Read(buf): io.EOF (an empty file) is not an error here
AssetRead ==
    /\ apc = "read"
    /\ \/ /\ buf' = tmpData
          /\ apc' = "sniff"
          /\ UNCHANGED ret
       \/ /\ Return("", isPhoto, "read")
          /\ UNCHANGED buf
    /\ UNCHANGED <<mlAssetID, mimeTable, probes, body, isPhoto, tmpCreated, tmpOpen,
                   tmpData, ext, disk>>
    /\ UNCHANGED <<rvars, ovars, mvars>>

\* http.DetectContentType, mime.ExtensionsByType and the choice of ext
AssetSniff ==
    /\ apc = "sniff"
    /\ LET mimeType == DetectContentType(buf)
           extensions == ExtensionsByType(mimeTable, mimeType)
           pick == PickExt(extensions, ext)
       IN IF pick.fail
          THEN /\ Return("", isPhoto, "extension")
               /\ UNCHANGED ext
          ELSE /\ ext' = pick.ext
               /\ apc' = "close"
               /\ UNCHANGED ret
    /\ UNCHANGED <<mlAssetID, mimeTable, probes, body, isPhoto, tmpCreated, tmpOpen,
                   tmpData, buf, disk>>
    /\ UNCHANGED <<rvars, ovars, mvars>>

\* tmpFile.Close()
AssetClose ==
    /\ apc = "close"
    /\ tmpOpen' = FALSE
    /\ apc' = "rename"
    /\ UNCHANGED <<mlAssetID, mimeTable, probes, body, isPhoto, tmpCreated,
                   tmpData, buf, ext, disk, ret>>
    /\ UNCHANGED <<rvars, ovars, mvars>>

\* newPath := tmpFile.Name() + ext; os.Rename(tmpFile.Name(), newPath)
AssetRename ==
    /\ apc = "rename"
    /\ LET newPath == TmpName \o ext
       IN \/ /\ disk' = Renamed(disk, TmpName, newPath)
             /\ Return(newPath, isPhoto, "nil")
          \/ /\ Return("", isPhoto, "rename")
             /\ UNCHANGED disk
    /\ UNCHANGED <<mlAssetID, mimeTable, probes, body, isPhoto, tmpCreated, tmpOpen,
                   tmpData, buf, ext>>
    /\ UNCHANGED <<rvars, ovars, mvars>>

-----------------------------------------------------------------------------
(* Methods of ebird.Record and ebird.ObservationID.  Date and Time are     *)
(* sequences of characters, so that time.Parse can read them.              *)

Digits == <<"0", "1", "2", "3", "4", "5", "6", "7", "8", "9">>
DigitChars == {Digits[i] : i \in 1..Len(Digits)}
DigitVal(c) == (CHOOSE i \in 1..Len(Digits) : Digits[i] = c) - 1

\* time.isDigit(s, i), with i counted from 1
IsDigit(v, i) == i <= Len(v) /\ v[i] \in DigitChars

DropFirst(v, n) == SubSeq(v, n + 1, Len(v))

\* time.getnum: one or two digits; exactly two when fixed
getnum(v, fixed) ==
    IF ~IsDigit(v, 1)
    THEN [ok |-> FALSE, n |-> 0, rest |-> v]
    ELSE IF ~IsDigit(v, 2)
         THEN IF fixed
              THEN [ok |-> FALSE, n |-> 0, rest |-> v]
              ELSE [ok |-> TRUE, n |-> DigitVal(v[1]), rest |-> DropFirst(v, 1)]
         ELSE [ok |-> TRUE, n |-> 10 * DigitVal(v[1]) + DigitVal(v[2]),
               rest |-> DropFirst(v, 2)]

\* time.cutspace
RECURSIVE cutspace(_)
cutspace(v) == IF Len(v) > 0 /\ v[1] = " " THEN cutspace(Tail(v)) ELSE v

\* time.daysIn
daysIn(month, year) ==
    IF month = 2
    THEN IF year % 4 = 0 /\ (year % 100 # 0 \/ year % 400 = 0) THEN 29 ELSE 28
    ELSE IF month \in {4, 6, 9, 11} THEN 30 ELSE 31

\* The layouts of Observed, cut into the chunks time.Parse reads them in.
LayoutSlash == <<"1", "/", "2", "/", "2006">>
LayoutISO == <<"2006", "-", "01", "-", "02">>
LayoutSlashTime == LayoutSlash \o <<" ", "3", ":", "04", " ", "PM">>
LayoutISOTime == LayoutISO \o <<" ", "03", ":", "04", " ", "PM">>

ZeroTime == [year |-> 1, month |-> 1, day |-> 1, hour |-> 0, min |-> 0]

ParseStart(value) ==
    [ok |-> TRUE, v |-> value, year |-> 0, month |-> 1, day |-> 1,
     hour |-> 0, min |-> 0, pm |-> FALSE, am |-> FALSE]

Bad(st) == [st EXCEPT !.ok = FALSE]

\* One chunk of the layout against the front of the value (the switch of
\* time.parse, and time.skip for the literal text between the chunks).
ParseStep(tok, st) ==
    LET v == st.v IN
    CASE tok = "2006" ->
           IF Len(v) < 4 \/ \E i \in 1..4 : ~IsDigit(v, i)
           THEN Bad(st)
           ELSE [st EXCEPT !.year = 1000 * DigitVal(v[1]) + 100 * DigitVal(v[2])
                                    + 10 * DigitVal(v[3]) + DigitVal(v[4]),
                           !.v = DropFirst(v, 4)]
      [] tok \in {"1", "01"} ->
           LET g == getnum(v, tok = "01")
           IN IF ~g.ok \/ g.n <= 0 \/ 12 < g.n
              THEN Bad(st)
              ELSE [st EXCEPT !.month = g.n, !.v = g.rest]
      [] tok \in {"2", "02"} ->
           LET g == getnum(v, tok = "02")
           IN IF ~g.ok THEN Bad(st)
              ELSE [st EXCEPT !.day = g.n, !.v = g.rest]
      [] tok \in {"3", "03"} ->
           LET g == getnum(v, tok = "03")
           IN IF ~g.ok \/ 12 < g.n
              THEN Bad(st)
              ELSE [st EXCEPT !.hour = g.n, !.v = g.rest]
      [] tok = "04" ->
           LET g == getnum(v, TRUE)
           IN IF ~g.ok \/ 60 <= g.n
              THEN Bad(st)
              ELSE [st EXCEPT !.min = g.n, !.v = g.rest]
      [] tok = "PM" ->
           IF Len(v) < 2 THEN Bad(st)
           ELSE IF SubSeq(v, 1, 2) = <<"P", "M">>
                THEN [st EXCEPT !.pm = TRUE, !.v = DropFirst(v, 2)]
                ELSE IF SubSeq(v, 1, 2) = <<"A", "M">>
                     THEN [st EXCEPT !.am = TRUE, !.v = DropFirst(v, 2)]
                     ELSE Bad(st)
      [] tok = " " ->
           IF Len(v) > 0 /\ v[1] # " " THEN Bad(st)
           ELSE [st EXCEPT !.v = cutspace(v)]
      [] OTHER ->
           IF Len(v) = 0 \/ v[1] # tok THEN Bad(st)
           ELSE [st EXCEPT !.v = Tail(v)]

RECURSIVE ParseFrom(_, _, _)
ParseFrom(layout, k, st) ==
    IF ~st.ok THEN st
    ELSE IF k > Len(layout)
         THEN (IF Len(st.v) # 0 THEN Bad(st) ELSE st)    \* extra text
         ELSE ParseFrom(layout, k + 1, ParseStep(layout[k], st))

\* time.Parse(layout, value): the instant, or an error and the zero Time
Parse(layout, value) ==
    LET st == ParseFrom(layout, 1, ParseStart(value))
        hour == IF st.pm /\ st.hour < 12 THEN st.hour + 12
                ELSE IF st.am /\ st.hour = 12 THEN 0
                ELSE st.hour
    IN IF ~st.ok \/ st.day < 1 \/ st.day > daysIn(st.month, st.year)
       THEN [ok |-> FALSE, t |-> ZeroTime]
       ELSE [ok |-> TRUE,
             t |-> [year |-> st.year, month |-> st.month, day |-> st.day,
                    hour |-> hour, min |-> st.min]]

\* strings.Contains(s, c) for a one-character c
Contains(s, c) == \E i \in 1..Len(s) : s[i] = c

\* func (r Record) Observed() (time.Time, error)
ObservedSwapped(r) ==
    IF r.Time = << >>
    THEN IF ~Contains(r.Date, "/")
         THEN Parse(LayoutSlash, r.Date)
         ELSE Parse(LayoutISO, r.Date)
    ELSE IF ~Contains(r.Date, "/")
         THEN Parse(LayoutSlashTime, r.Date \o <<" ">> \o r.Time)
         ELSE Parse(LayoutISOTime, r.Date \o <<" ">> \o r.Time)
Observed(r) ==
    IF r.Time = << >>
    THEN IF Contains(r.Date, "/")
         THEN Parse(LayoutSlash, r.Date)
         ELSE Parse(LayoutISO, r.Date)
    ELSE IF Contains(r.Date, "/")
         THEN Parse(LayoutSlashTime, r.Date \o <<" ">> \o r.Time)
         ELSE Parse(LayoutISOTime, r.Date \o <<" ">> \o r.Time)

\* func (r Record) ObservationID() ObservationID
ObservationID(r) ==
    [SubmissionID |-> r.SubmissionID, ScientificName |-> r.ScientificName]

\* func (o ObservationID) Valid() bool
ValidEither(o) == o.SubmissionID # "" \/ o.ScientificName # ""
Valid(o) == o.SubmissionID # "" /\ o.ScientificName # ""

\* Receivers the methods are called on.  Each piece of a date or a time is
\* given as its text (s) and the number it stands for (n).
YearText == <<"2", "0", "2", "4">>
MonthTexts ==
    { [s |-> <<"5">>, n |-> 5, padded |-> FALSE],
      [s |-> <<"0", "5">>, n |-> 5, padded |-> TRUE],
      [s |-> <<"1", "2">>, n |-> 12, padded |-> TRUE] }
DayTexts ==
    { [s |-> <<"1">>, n |-> 1, padded |-> FALSE],
      [s |-> <<"0", "1">>, n |-> 1, padded |-> TRUE],
      [s |-> <<"3", "1">>, n |-> 31, padded |-> TRUE] }
HourTexts ==
    { [s |-> <<"7">>, n |-> 7, padded |-> FALSE],
      [s |-> <<"0", "7">>, n |-> 7, padded |-> TRUE],
      [s |-> <<"3">>, n |-> 3, padded |-> FALSE],
      [s |-> <<"1", "2">>, n |-> 12, padded |-> TRUE] }
MinuteTexts ==
    { [s |-> <<"0", "0">>, n |-> 0], [s |-> <<"0", "4">>, n |-> 4] }
MarkerTexts ==
    { [s |-> <<"A", "M">>, pm |-> FALSE], [s |-> <<"P", "M">>, pm |-> TRUE] }
JunkDates ==
    { <<"n", "o", "t", "-", "a", "-", "d", "a", "t", "e">>,
      <<"2", "0", "2", "4", "-", "0", "2", "-", "3", "0">>,
      << >> }
JunkTimes == { <<"n", "o", "o", "n">> }

GivenDates ==
    {[form |-> f, m |-> m, d |-> d] :
        f \in {"slash", "iso"}, m \in MonthTexts, d \in DayTexts}
    \cup {[form |-> "junk", s |-> j] : j \in JunkDates}
GivenTimes ==
    {[form |-> "none"]}
    \cup {[form |-> "clock", h |-> h, mi |-> mi, ap |-> ap] :
            h \in HourTexts, mi \in MinuteTexts, ap \in MarkerTexts}
    \cup {[form |-> "junk", s |-> j] : j \in JunkTimes}

DateText(g) ==
    CASE g.form = "slash" -> g.m.s \o <<"/">> \o g.d.s \o <<"/">> \o YearText
      [] g.form = "iso"   -> YearText \o <<"-">> \o g.m.s \o <<"-">> \o g.d.s
      [] OTHER            -> g.s
TimeText(g) ==
    CASE g.form = "none"  -> << >>
      [] g.form = "clock" -> g.h.s \o <<":">> \o g.mi.s \o <<" ">> \o g.ap.s
      [] OTHER            -> g.s

SubmissionIDs == {"", "S193523301"}
ScientificNames == {"", "Melanitta sp."}

CallObserved ==
    /\ ~observedRet.called
    /\ observedRet' = [called |-> TRUE, ok |-> Observed(rcv).ok, t |-> Observed(rcv).t]
    /\ UNCHANGED <<rcv, given, oidRet, validRet, rvars, ovars, avars>>

CallObservationID ==
    /\ ~oidRet.called
    /\ oidRet' = [called |-> TRUE, id |-> ObservationID(rcv)]
    /\ UNCHANGED <<rcv, given, observedRet, validRet, rvars, ovars, avars>>

CallValid ==
    /\ oidRet.called
    /\ ~validRet.called
    /\ validRet' = [called |-> TRUE, v |-> Valid(oidRet.id)]
    /\ UNCHANGED <<rcv, given, observedRet, oidRet, rvars, ovars, avars>>

-----------------------------------------------------------------------------
(* Specifications                                                          *)

\* Records is called on a file that was read; the other operations are idle.
RecordsInit ==
    /\ file \in Files
    /\ field = << >>
    /\ recs = << >>
    /\ ri = 0
    /\ yielded = << >>
    /\ yieldOK = TRUE
    /\ rpc = "call"
    /\ page = 0
    /\ results = << >>
    /\ totalResults = 0
    /\ requests = << >>
    /\ responses = << >>
    /\ opc = "idle"
    /\ mlAssetID = ""
    /\ mimeTable = BuiltinTable
    /\ probes = << >>
    /\ body = "empty"
    /\ isPhoto = FALSE
    /\ tmpCreated = FALSE
    /\ tmpOpen = FALSE
    /\ tmpData = "empty"
    /\ buf = "empty"
    /\ ext = ""
    /\ disk = {}
    /\ ret = [path |-> "", isPhoto |-> FALSE, err |-> "none"]
    /\ apc = "idle"
    /\ rcv = [SubmissionID |-> "", ScientificName |-> "", Date |-> << >>, Time |-> << >>]
    /\ given = [date |-> "none", time |-> "none"]
    /\ observedRet = [called |-> FALSE]
    /\ oidRet = [called |-> FALSE]
    /\ validRet = [called |-> FALSE]

RecordsNext == RecordsCall \/ RecordsYield \/ RecordsEnd
SpecRecords == RecordsInit /\ [][RecordsNext]_vars

\* DownloadObservations enters its loop at page 1 with nothing accumulated.
ObsInit ==
    /\ page = 1
    /\ results = << >>
    /\ totalResults = 0
    /\ requests = << >>
    /\ responses = << >>
    /\ opc = "loop"
    /\ file = << >>
    /\ field = << >>
    /\ recs = << >>
    /\ ri = 0
    /\ yielded = << >>
    /\ yieldOK = TRUE
    /\ rpc = "idle"
    /\ mlAssetID = ""
    /\ mimeTable = BuiltinTable
    /\ probes = << >>
    /\ body = "empty"
    /\ isPhoto = FALSE
    /\ tmpCreated = FALSE
    /\ tmpOpen = FALSE
    /\ tmpData = "empty"
    /\ buf = "empty"
    /\ ext = ""
    /\ disk = {}
    /\ ret = [path |-> "", isPhoto |-> FALSE, err |-> "none"]
    /\ apc = "idle"
    /\ rcv = [SubmissionID |-> "", ScientificName |-> "", Date |-> << >>, Time |-> << >>]
    /\ given = [date |-> "none", time |-> "none"]
    /\ observedRet = [called |-> FALSE]
    /\ oidRet = [called |-> FALSE]
    /\ validRet = [called |-> FALSE]

ObsNext == ObsFetch \/ ObsTransportFail \/ ObsDecodeFail
SpecObs == ObsInit /\ [][ObsNext]_vars

\* DownloadMLAsset is called with an identifier on a host with some MIME table.
AssetInit ==
    /\ mlAssetID \in MLAssetIDs
    /\ mimeTable \in MimeTables
    /\ probes = << >>
    /\ body = "empty"
    /\ isPhoto = FALSE
    /\ tmpCreated = FALSE
    /\ tmpOpen = FALSE
    /\ tmpData = "empty"
    /\ buf = "empty"
    /\ ext = ""
    /\ disk = {}
    /\ ret = [path |-> "", isPhoto |-> FALSE, err |-> "none"]
    /\ apc = "photo"
    /\ file = << >>
    /\ field = << >>
    /\ recs = << >>
    /\ ri = 0
    /\ yielded = << >>
    /\ yieldOK = TRUE
    /\ rpc = "idle"
    /\ page = 0
    /\ results = << >>
    /\ totalResults = 0
    /\ requests = << >>
    /\ responses = << >>
    /\ opc = "idle"
    /\ rcv = [SubmissionID |-> "", ScientificName |-> "", Date |-> << >>, Time |-> << >>]
    /\ given = [date |-> "none", time |-> "none"]
    /\ observedRet = [called |-> FALSE]
    /\ oidRet = [called |-> FALSE]
    /\ validRet = [called |-> FALSE]

AssetNext ==
    \/ AssetGetPhoto \/ AssetGetAudio \/ AssetCreateTemp \/ AssetCopy
    \/ AssetSeek \/ AssetRead \/ AssetSniff \/ AssetClose \/ AssetRename
SpecAsset == AssetInit /\ [][AssetNext]_vars

\* A Record whose Date and Time were written in one of the enumerated ways.
MethodsInit ==
    /\ \E gd \in GivenDates, gt \in GivenTimes :
         /\ given = [date |-> gd, time |-> gt]
         /\ \E sid \in SubmissionIDs, sn \in ScientificNames :
              rcv = [SubmissionID |-> sid, ScientificName |-> sn,
                     Date |-> DateText(gd), Time |-> TimeText(gt)]
    /\ observedRet = [called |-> FALSE]
    /\ oidRet = [called |-> FALSE]
    /\ validRet = [called |-> FALSE]
    /\ file = << >>
    /\ field = << >>
    /\ recs = << >>
    /\ ri = 0
    /\ yielded = << >>
    /\ yieldOK = TRUE
    /\ rpc = "idle"
    /\ page = 0
    /\ results = << >>
    /\ totalResults = 0
    /\ requests = << >>
    /\ responses = << >>
    /\ opc = "idle"
    /\ mlAssetID = ""
    /\ mimeTable = BuiltinTable
    /\ probes = << >>
    /\ body = "empty"
    /\ isPhoto = FALSE
    /\ tmpCreated = FALSE
    /\ tmpOpen = FALSE
    /\ tmpData = "empty"
    /\ buf = "empty"
    /\ ext = ""
    /\ disk = {}
    /\ ret = [path |-> "", isPhoto |-> FALSE, err |-> "none"]
    /\ apc = "idle"

MethodsNext == CallObserved \/ CallObservationID \/ CallValid
SpecMethods == MethodsInit /\ [][MethodsNext]_vars

-----------------------------------------------------------------------------
(* Properties of ebird.Records (checked under SpecRecords)                 *)

\* The column name each string field of Record is read from.
ColumnOf ==
    [ SubmissionID       |-> "Submission ID",
      CommonName         |-> "Common Name",
      ScientificName     |-> "Scientific Name",
      TaxonomicOrder     |-> "Taxonomic Order",
      Count              |-> "Count",
      StateProvince      |-> "State/Province",
      County             |-> "County",
      LocationID         |-> "Location ID",
      Location           |-> "Location",
      Latitude           |-> "Latitude",
      Longitude          |-> "Longitude",
      Date               |-> "Date",
      Time               |-> "Time",
      Protocol           |-> "Protocol",
      DurationMin        |-> "Duration (Min)",
      AllObsReported     |-> "All Obs Reported",
      DistanceTraveledKm |-> "Distance Traveled (km)",
      AreaCoveredHa      |-> "Area Covered (ha)",
      NumberOfObservers  |-> "Number of Observers",
      BreedingCode       |-> "Breeding Code",
      ObservationDetails |-> "Observation Details",
      ChecklistComments  |-> "Checklist Comments",
      MLCatalogNumbers   |-> "ML Catalog Numbers" ]

FieldNames == DOMAIN ColumnOf

Iterating == rpc \in {"iter", "done"}

\* 0-based positions of a column name in the header row
PositionsOf(col) == {i \in 0..(Len(file[1]) - 1) : file[1][i + 1] = col}

LastPositionOf(col) ==
    CHOOSE i \in PositionsOf(col) : \A j \in PositionsOf(col) : j <= i

\* The cell a row holds at 0-based position i, or "" past its end
CellOrEmpty(row, i) == IF i < Len(row) THEN row[i + 1] ELSE ""

\* C1: for every header, data row and string field of Record, a field whose
\* column name does not occur in the header is the empty string in the
\* yielded Record, whatever the row's cells are.
C1_AbsentColumnIsEmpty ==
    Iterating =>
        \A k \in 1..Len(yielded) : \A fn \in FieldNames :
            PositionsOf(ColumnOf[fn]) = {} => yielded[k][fn] = ""

\* C2 (as stated): for a row with fewer cells than the header, a field whose
\* column name is at header index i gets cell i when i < len(row) and the
\* empty string otherwise -- for every index i the name occurs at.
C2_ShortRowAnyIndex ==
    Iterating =>
        \A k \in 1..Len(yielded) :
            Len(recs[k]) < Len(file[1]) =>
                \A fn \in FieldNames : \A i \in PositionsOf(ColumnOf[fn]) :
                    yielded[k][fn] = CellOrEmpty(recs[k], i)

\* C2 (amended): for a row with fewer cells than the header, the row is
\* decoded, and a field whose column name occurs in the header gets the cell
\* at the LAST header index i of that name when i < len(row) and the empty
\* string when i >= len(row).
C2_ShortRowLastIndex ==
    Iterating =>
        /\ Len(yielded) \in {ri, ri + 1}
        /\ \A k \in 1..Len(yielded) :
            Len(recs[k]) < Len(file[1]) =>
                \A fn \in FieldNames :
                    PositionsOf(ColumnOf[fn]) # {} =>
                        yielded[k][fn] =
                            CellOrEmpty(recs[k], LastPositionOf(ColumnOf[fn]))

\* A short row under a two-column header: the first column is read from the
\* row, the second lies past the row's end.
C2_Witness ==
    /\ Iterating
    /\ file[1] = <<"Date", "Time">>
    /\ Len(yielded) >= 1
    /\ recs[1] = <<"x">>
    /\ yielded[1].Date = "x"
    /\ yielded[1].Time = ""

\* C13: one Record per non-header row, in file order: the k-th yielded Record
\* has Line = k+1 and is decoded from file row k+1; a full iteration of a
\* file with n rows yields n-1 Records (none for a header-only file).
C13_OneRecordPerRow ==
    Iterating =>
        /\ Len(yielded) <= Len(file) - 1
        /\ \A k \in 1..Len(yielded) :
             /\ yielded[k].Line = k + 1
             /\ \A fn \in FieldNames :
                  PositionsOf(ColumnOf[fn]) # {} =>
                      yielded[k][fn] =
                          CellOrEmpty(file[k + 1], LastPositionOf(ColumnOf[fn]))
        /\ (rpc = "done" /\ yieldOK) => Len(yielded) = Len(file) - 1

\* a file of three rows, iterated to the end: lines 2 and 3, in that order
C13_Witness ==
    /\ rpc = "done"
    /\ yieldOK
    /\ file = << <<"Date">>, <<"x">>, <<"">> >>
    /\ Len(yielded) = 2
    /\ yielded[1].Line = 2 /\ yielded[1].Date = "x"
    /\ yielded[2].Line = 3 /\ yielded[2].Date = ""

StaysStopped == ~yieldOK => (yielded' = yielded /\ ri' = ri /\ rpc' = rpc)

\* C14: once yield has returned false for a Record, the iteration is over:
\* that Record is the last one yielded and no further row is decoded.
C14_EarlyTermination ==
    /\ [](~yieldOK => (rpc = "done" /\ Len(yielded) = ri + 1))
    /\ [][StaysStopped]_vars

\* the consumer stops at the first of two data rows
C14_Witness ==
    /\ ~yieldOK
    /\ rpc = "done"
    /\ Len(recs) = 2
    /\ Len(yielded) = 1

-----------------------------------------------------------------------------
(* Properties of DownloadObservations (checked under SpecObs)              *)

\* C3: a page that reports a nonzero total but contributes no result while
\* the accumulated count is below the captured total stops the loop.
C3_StalledPageStops ==
    LET n == Len(responses)
    IN (/\ n > 0
        /\ responses[n].TotalResults # 0
        /\ responses[n].Count = 0
        /\ Len(results) < totalResults)
       => (opc = "done" /\ Len(requests) = n)

\* C6: when the first page reports a total of 0, exactly one request is
\* issued and the result set is empty, whatever items that page carried.
C6_ZeroTotalFirstPage ==
    (Len(responses) >= 1 /\ responses[1].TotalResults = 0) =>
        /\ opc = "done"
        /\ requests = <<1>>
        /\ results = << >>

C6_Witness ==
    /\ opc = "done"
    /\ Len(responses) = 1
    /\ responses[1].TotalResults = 0
    /\ responses[1].Count > 0
    /\ results = << >>

Min(a, b) == IF a <= b THEN a ELSE b
Max(a, b) == IF a >= b THEN a ELSE b
CeilPages(T) == (T + perPage - 1) \div perPage

\* Every response so far came from a source that reports total T on every
\* page and fills each page with min(200, remaining) items.
Consistent(T) ==
    \A p \in 1..Len(responses) :
        /\ responses[p].TotalResults = T
        /\ responses[p].Count = Min(perPage, Max(0, T - (p - 1) * perPage))

\* C7: against a consistent source with total T > 0 the pages requested are
\* 1, 2, ... in order, never more than ceil(T/200) of them; the loop goes on
\* while fewer than ceil(T/200) pages were answered, and it returns after
\* exactly ceil(T/200) requests with exactly the T items in page order.
C7_ConsistentSource ==
    \A T \in Totals \ {0} :
        Consistent(T) =>
            /\ requests = [k \in 1..Len(requests) |-> k]
            /\ Len(requests) <= CeilPages(T)
            /\ opc = "loop" => Len(responses) < CeilPages(T)
            /\ opc = "done" =>
                /\ Len(requests) = CeilPages(T)
                /\ results = [k \in 1..T |-> k]

\* total 250: two requests, pages 1 and 2, 250 items
C7_Witness ==
    /\ opc = "done"
    /\ Consistent(250)
    /\ requests = <<1, 2>>
    /\ Len(results) = 250

FatalStates == {"fatal_roundTrip", "fatal_Unmarshal"}

StaysFatal ==
    opc \in FatalStates =>
        (opc' = opc /\ requests' = requests /\ results' = results)

\* C12: a request that gets no decoded response (roundTrip or Unmarshal
\* failed on page k) ends the retrieval as fatal: it was the last request,
\* the call never returns, and nothing changes afterwards.
C12_FailureIsFatal ==
    /\ [](Len(requests) # Len(responses) =>
            /\ opc \in FatalStates
            /\ Len(requests) = Len(responses) + 1
            /\ requests[Len(requests)] = Len(responses) + 1)
    /\ [][StaysFatal]_vars

\* page 2 fails to decode after page 1 delivered 200 results
C12_Witness ==
    /\ opc = "fatal_Unmarshal"
    /\ requests = <<1, 2>>
    /\ Len(responses) = 1
    /\ Len(results) = 200

\* C17: the stop threshold is the total the first page reported (nonzero, or
\* the loop ends there) and never changes; while no failure occurs the loop
\* has stopped exactly when the last page reported total 0 or the accumulated
\* count is >= that threshold.
C17_CapturedTotal ==
    Len(responses) >= 1 =>
        LET first == responses[1].TotalResults
            last == responses[Len(responses)].TotalResults
        IN /\ totalResults = first
           /\ opc \in {"loop", "done"} =>
                 (opc = "done" <=> (last = 0 \/ Len(results) >= first))

\* page 2 reports a larger total than page 1 did; the fetch ends at 250
C17_Witness ==
    /\ opc = "done"
    /\ Len(responses) = 2
    /\ responses[1].TotalResults = 250
    /\ responses[2].TotalResults = 401
    /\ Len(results) = 250

-----------------------------------------------------------------------------
(* Properties of DownloadMLAsset (checked under SpecAsset)                 *)

Answered(k, st) ==
    Len(probes) >= k /\ ~probes[k].err /\ probes[k].status = st

\* C4: the photo endpoint is requested first and exactly once; after a 200
\* the audio endpoint is never requested; after a 404 it is requested exactly
\* once, after the photo request and for the same identifier.
C4_ProbeOrder ==
    /\ apc # "photo" => Len(probes) >= 1
    /\ Len(probes) <= 2
    /\ Len(probes) >= 1 => probes[1].url = PhotoURL(mlAssetID)
    /\ \A k \in 2..Len(probes) : probes[k].url = AudioURL(mlAssetID)
    /\ Answered(1, StatusOK) => Len(probes) = 1 /\ apc # "audio"
    /\ Answered(1, StatusNotFound) =>
           IF apc = "audio" THEN Len(probes) = 1 ELSE Len(probes) = 2

C4_Witness ==
    /\ apc = "done"
    /\ Answered(1, StatusNotFound)
    /\ probes[2].url = AudioURL(mlAssetID)
    /\ ret.err = "nil"

\* C5: once the temporary file is created its handle is closed on every exit
\* path of the call, and it is closed before the rename is attempted.
C5_HandleClosedOnExit ==
    /\ (apc = "done" /\ tmpCreated) => ~tmpOpen
    /\ apc = "rename" => ~tmpOpen

\* C8: a photo probe answered with a status other than 200 and 404 ends the
\* call with an error and an empty path, without an audio request and without
\* a temporary file.
C8_OtherStatusFails ==
    (Len(probes) >= 1 /\ ~probes[1].err
        /\ probes[1].status \notin {StatusOK, StatusNotFound}) =>
        /\ apc = "done"
        /\ ret.err = "status"
        /\ ret.path = ""
        /\ Len(probes) = 1
        /\ ~tmpCreated
        /\ disk = {}

C8_Witness ==
    /\ apc = "done"
    /\ Answered(1, 500)
    /\ ret.err = "status"

\* C9: a call that succeeds through the audio probe returns the temporary
\* name with ".mp3" appended and a false photo flag, whatever bytes were
\* downloaded; the content type is sniffed only after a photo probe answered
\* 200, and a call that succeeds through the photo probe returns a true flag.
C9_AudioExtensionFixed ==
    /\ (apc = "done" /\ ret.err = "nil" /\ Answered(2, StatusOK)) =>
           /\ ret.path = TmpName \o ".mp3"
           /\ ret.isPhoto = FALSE
    /\ apc \in {"seek", "read", "sniff"} => Answered(1, StatusOK) /\ isPhoto
    /\ (apc = "done" /\ ret.err = "nil" /\ Answered(1, StatusOK)) =>
           ret.isPhoto = TRUE

\* JPEG bytes served by the audio endpoint are still stored as .mp3
C9_Witness ==
    /\ apc = "done"
    /\ ret.err = "nil"
    /\ Answered(1, StatusNotFound)
    /\ Answered(2, StatusOK)
    /\ tmpData = "jpeg"
    /\ ret.path = TmpName \o ".mp3"

NoExtensionFor(b) == Len(ExtensionsByType(mimeTable, DetectContentType(b))) = 0

\* C10: when the photo probe succeeded and the sniffed MIME type has no
\* extension, the call ends with an error and an empty path; the temporary
\* file is not renamed and no default extension is substituted.
C10_NoExtensionFails ==
    [][(apc = "sniff" /\ NoExtensionFor(buf)) =>
          /\ isPhoto
          /\ apc' = "done"
          /\ ret'.err = "extension"
          /\ ret'.path = ""
          /\ disk' = disk
          /\ disk' = {TmpName}]_vars

C10_Witness ==
    /\ apc = "done"
    /\ ret.err = "extension"
    /\ Answered(1, StatusOK)
    /\ NoExtensionFor(buf)
    /\ disk = {TmpName}

\* C18: a call leaves at most one file on disk: none unless the temporary
\* file was created (so none when the probes fail), and after a successful
\* return exactly the file at the returned path, which is the temporary name
\* with the extension appended, the unsuffixed name being gone.
C18_OneFilePerCall ==
    /\ Cardinality(disk) <= 1
    /\ ~tmpCreated => disk = {}
    /\ (apc = "done" /\ ret.err \in {"get", "status"}) => disk = {}
    /\ (apc = "done" /\ ret.err = "nil") =>
          /\ disk = {ret.path}
          /\ ret.path = TmpName \o ext
          /\ ret.path # TmpName
          /\ TmpName \notin disk

\* a photo stored under the extension sniffed from its bytes
C18_Witness ==
    /\ apc = "done"
    /\ ret.err = "nil"
    /\ Answered(1, StatusOK)
    /\ disk = {TmpName \o ".jpeg"}

\* C19: the returned path is non-empty iff the error is nil (every error
\* return carries the empty path), and the returned photo flag is true only
\* if the photo probe answered 200.
C19_PathIffNoError ==
    apc = "done" =>
        /\ (ret.path # "") <=> (ret.err = "nil")
        /\ ret.isPhoto => Answered(1, StatusOK)
        /\ ret.err \in {"nil", "get", "status", "CreateTemp", "copy", "seek",
                        "read", "extension", "rename"}

\* the rename fails after a photo was downloaded and sniffed
C19_Witness ==
    /\ apc = "done"
    /\ ret.err = "rename"
    /\ ret.path = ""
    /\ ret.isPhoto
    /\ tmpCreated

-----------------------------------------------------------------------------
(* Properties of the Record methods (checked under SpecMethods)            *)

\* The hour of the day a 12-hour clock reading stands for
Hour24(h, pm) == IF pm THEN (IF h = 12 THEN 12 ELSE h + 12)
                 ELSE (IF h = 12 THEN 0 ELSE h)

\* The instant the given date and time stand for (midnight without a time)
GivenInstant ==
    [year  |-> 2024,
     month |-> given.date.m.n,
     day   |-> given.date.d.n,
     hour  |-> IF given.time.form = "clock"
               THEN Hour24(given.time.h.n, given.time.ap.pm) ELSE 0,
     min   |-> IF given.time.form = "clock" THEN given.time.mi.n ELSE 0]

IsoPadded ==
    given.date.form = "iso" /\ given.date.m.padded /\ given.date.d.padded

Resolved == observedRet.ok /\ observedRet.t = GivenInstant
Failed == ~observedRet.ok /\ observedRet.t = ZeroTime

\* C11: for an ISO year-month-day Date and a non-empty 12-hour Time, Observed
\* resolves the instant whether the hour is zero-padded ("07:00 AM") or not
\* ("7:00 AM").
C11_IsoBothHourPaddings ==
    (observedRet.called /\ IsoPadded /\ given.time.form = "clock") => Resolved

\* C15: the ObservationID of a Record carries exactly its SubmissionID and
\* ScientificName, and Valid() on it is true iff both are non-empty.
C15_IdentityValid ==
    /\ oidRet.called =>
          /\ oidRet.id.SubmissionID = rcv.SubmissionID
          /\ oidRet.id.ScientificName = rcv.ScientificName
    /\ validRet.called =>
          (validRet.v <=> (rcv.SubmissionID # "" /\ rcv.ScientificName # ""))

\* Valid() answered false for a Record with a submission id but no name
C15_Witness ==
    /\ validRet.called
    /\ ~validRet.v
    /\ rcv.SubmissionID # ""
    /\ rcv.ScientificName = ""

\* C16: the date is read as month/day/4-digit-year iff it contains a slash
\* (leading zeros optional), otherwise as ISO year-month-day; without a Time
\* the Date alone is parsed and gives midnight; with a Time the Date, a space
\* and the Time are parsed with the date layout followed by a 12-hour clock
\* and an AM/PM marker; an input that matches neither layout gives an error
\* and no instant.  (The hour padding of the ISO branch is C11's.)
C16_LayoutSelection ==
    observedRet.called =>
        /\ given.date.form = "junk" => Failed
        /\ given.time.form = "junk" => Failed
        /\ (given.date.form = "iso" /\ ~IsoPadded) => Failed
        /\ (given.date.form = "slash" /\ given.time.form # "junk") => Resolved
        /\ (IsoPadded /\ given.time.form = "none") => Resolved
        /\ (IsoPadded /\ given.time.form = "clock" /\ given.time.h.padded)
               => Resolved

\* "5/1/2024" with "3:04 PM" resolves to 15:04 on May 1 2024
C16_Witness ==
    /\ observedRet.called
    /\ rcv.Date = <<"5", "/", "1", "/", "2", "0", "2", "4">>
    /\ rcv.Time = <<"3", ":", "0", "4", " ", "P", "M">>
    /\ observedRet.ok
    /\ observedRet.t = [year |-> 2024, month |-> 5, day |-> 1,
                        hour |-> 15, min |-> 4]

=============================================================================
